---- MODULE Spec2Model ----
(***************************************************************************)
(* fuzzh3: Fuzzer::fuzz (src/src/fuzz.rs) driving Client                   *)
(* (src/src/client.rs) over a quiche QUIC/HTTP-3 connection.               *)
(*                                                                         *)
(* The program is single threaded.  One action is one call of a handler of *)
(* the control loop of Fuzzer::fuzz (the loop test, poll_io, the harvest   *)
(* poll_responses with the `for resp` loop that consumes its result, one   *)
(* turn of the submit loop with its send_request call).  The peer and the  *)
(* network are the environment: what the socket holds when poll_io reads   *)
(* it is an input of poll_io, drawn from what the peer can have sent.      *)
(*                                                                         *)
(* Strings are sequences of string fragments (their concatenation is the   *)
(* string), so that trimming, parsing and formatting are computed.         *)
(***************************************************************************)
EXTENDS Integers, Sequences, FiniteSets, TLC

\* ------------------------------------------------------------------ bounds
MaxWords == 2
MaxBudget == 1
MaxNet == 2
MaxBody == 2

\* --------------------------------------------------------------- constants
MAX_DATAGRAM_SIZE == 1350
U16_MAX == 65535
None == -1

VARIABLES
    base_req,   \* the Base Request Template handed to Fuzzer::fuzz
    matcher,    \* Fuzzer.matcher
    words,      \* the trimmed lines of the wordlist, as pushed to `pending`
    pending,    \* fuzz.rs: VecDeque of the candidates not yet submitted
    in_flight,  \* Client.in_flight: stream id -> InFlight
    conn_h3,    \* Client.conn_h3 is Some
    pc,         \* position of Fuzzer::fuzz
    error,      \* the error fuzz returned with (pc = "err"), else "none"
    out,        \* the lines written to stdout
    progress,   \* position of the ProgressBar
    peer_max,   \* engine: cumulative bidi stream limit advertised by the peer
    opened,     \* engine: bidi streams opened locally so far
    evq,        \* engine: h3 events ready for h3.poll
    rx,         \* engine: stream id -> body bytes readable by recv_body
    srv,        \* peer: stream id -> how far the response has been sent
    sent,       \* peer: stream id -> number of body bytes sent
    completed,  \* the Vec poll_responses returned, until the `for` loop ends
    cids,       \* history: the stream each element of `completed` was made for
    result,     \* history: what the last send_request call returned
    sub,        \* history: stream id -> index in `words` of the candidate sent on it
    finished,   \* history: stream id -> the status held when its Finished was processed
    expected,   \* history: the lines owed for the accepted responses, in order
    delivered,  \* history: stream id -> the slices recv_body handed out, in order
    established, \* engine: conn.is_established()
    closed,     \* engine: conn.is_closed()
    edge,       \* poller: the readiness edges not yet reported by poll.poll
    events,     \* the mio::Events the last poll.poll filled
    sock,       \* socket: number of datagrams recv_from can return
    outq,       \* engine: number of datagrams conn.send can return
    log         \* history: the engine and poller calls of the current turn

vars == <<base_req, matcher, words, pending, in_flight, conn_h3, pc, error,
          out, progress, peer_max, opened, evq, rx, srv, sent,
          completed, cids, result, sub, finished, expected, delivered,
          established, closed, edge, events, sock, outq, log>>

cfg_vars == <<base_req, matcher, words>>
client_vars == <<in_flight, conn_h3>>
engine_vars == <<peer_max, opened, evq, rx>>
peer_vars == <<srv, sent>>
ret_vars == <<completed, cids>>
sub_vars == <<result, sub>>
hist_vars == <<sub_vars, finished, expected, delivered>>
pump_vars == <<established, closed, edge, events, sock, outq, log>>

\* ----------------------------------------------------------------- helpers
EmptyMap == [k \in {} |-> k]

MapInsert(m, k, v) == [x \in DOMAIN m \cup {k} |-> IF x = k THEN v ELSE m[x]]

MapRemove(m, k) == [x \in DOMAIN m \ {k} |-> m[x]]

Min(a, b) == IF a < b THEN a ELSE b

Digits == <<"0", "1", "2", "3", "4", "5", "6", "7", "8", "9">>

IsDigit(c) == \E d \in 1..10 : Digits[d] = c

DigitVal(c) == (CHOOSE d \in 1..10 : Digits[d] = c) - 1

Whitespace == {" ", "\t", "\r"}

\* str::trim (fuzz.rs:53): drops leading and trailing whitespace
RECURSIVE TrimStart(_)
TrimStart(s) ==
    IF s # <<>> /\ Head(s) \in Whitespace THEN TrimStart(Tail(s)) ELSE s

RECURSIVE TrimEnd(_)
TrimEnd(s) ==
    IF s # <<>> /\ s[Len(s)] \in Whitespace
    THEN TrimEnd(SubSeq(s, 1, Len(s) - 1)) ELSE s

trim(s) == TrimEnd(TrimStart(s))

\* <u16 as FromStr>::from_str (client.rs:239): an optional "+", then one or
\* more decimal digits, no overflow; None stands for the Err
RECURSIVE ParseDigits(_, _)
ParseDigits(s, acc) ==
    IF s = <<>> THEN acc
    ELSE IF ~IsDigit(Head(s)) THEN None
    ELSE LET v == acc * 10 + DigitVal(Head(s)) IN
         IF v > U16_MAX THEN None ELSE ParseDigits(Tail(s), v)

parse_u16(s) ==
    LET body == IF s # <<>> /\ Head(s) = "+" THEN Tail(s) ELSE s IN
    IF body = <<>> THEN None ELSE ParseDigits(body, 0)

\* Display for u16 (fuzz.rs:62): decimal, no leading zeros
RECURSIVE fmt_u16(_)
fmt_u16(n) ==
    IF n < 10 THEN <<Digits[n + 1]>>
    ELSE fmt_u16(n \div 10) \o <<Digits[(n % 10) + 1]>>

\* ------------------------------------------------- client/http.rs, fuzz.rs
\* Request::new as called by build_base_request
Request(scheme, host, method, path, headers) ==
    [scheme |-> scheme, method |-> method, host |-> host, path |-> path,
     headers |-> headers]

\* Request::with_path: a clone whose path is "/" followed by the word
with_path(req, path) == [req EXCEPT !.path = <<"/">> \o path]

\* Response::new: a Response has the fields status, headers and body
Response(status, headers, body) ==
    [status |-> status, headers |-> headers, body |-> body]

\* InFlight::new
InFlight == [status |-> None, headers |-> EmptyMap, body |-> <<>>]

\* Matcher::default
MatcherDefault ==
    [codes |-> << <<200, 299>>, <<301, 302>>, <<307, 307>>, <<401, 401>>,
                  <<403, 403>>, <<405, 405>>, <<500, 500>> >>,
     size |-> <<>>]

\* Matcher::with_codes
with_codes(m, codes) == [m EXCEPT !.codes = codes]

\* Matcher::with_size
with_size(m, size) == [m EXCEPT !.size = size]

\* a range test that leaves out the upper end
contains_exclusive(r, x) == r[1] <= x /\ x < r[2]

\* RangeInclusive::contains
contains(r, x) == r[1] <= x /\ x <= r[2]

\* Matcher::matches; size = <<>> is Option::None
matches(m, resp) ==
    IF ~(\E i \in DOMAIN m.codes : contains(m.codes[i], resp.status))
    THEN FALSE
    ELSE IF m.size # <<>> THEN contains(m.size, Len(resp.body)) ELSE TRUE

\* fuzz.rs:62 reads resp.path, a field Response (http.rs:51-55) does not
\* have and Response::new (client.rs:263) is given nothing to fill it from:
\* the line cannot carry the candidate's path
NoPath == <<"{no field path}">>

resp_path(resp) == IF "path" \in DOMAIN resp THEN resp.path ELSE NoPath

\* fuzz.rs:62: format "[{}] {}"
Line(status, path) == <<"[">> \o fmt_u16(status) \o <<"]", " ">> \o path

\* fuzz.rs:60-65: the `for resp` loop over what poll_responses returned;
\* `broken` is whether stdout refuses the write (writeln!(..)? returns)
RECURSIVE for_resp(_, _, _, _, _)
for_resp(m, resps, o, p, broken) ==
    IF resps = <<>> THEN [out |-> o, progress |-> p, err |-> "none"]
    ELSE LET resp == Head(resps) IN
         IF matches(m, resp)
         THEN IF broken
              THEN [out |-> o, progress |-> p, err |-> "Io"]
              ELSE for_resp(m, Tail(resps),
                            Append(o, Line(resp.status, resp_path(resp))),
                            p + 1, broken)
         ELSE for_resp(m, Tail(resps), o, p + 1, broken)

\* ---------------------------------------------------------------- client.rs
\* a has_in_flight that never reports an entry
has_in_flight_never == FALSE

\* Client::has_in_flight
has_in_flight == DOMAIN in_flight # {}

\* quiche::Connection::peer_streams_left_bidi
peer_streams_left_bidi == peer_max - opened

\* the identifier quiche gives the next client-initiated bidi stream
next_stream_id == 4 * opened

\* client.rs:234-243: the loop over the header list of a Headers event
RECURSIVE headers_loop(_, _)
headers_loop(list, state) ==
    IF list = <<>> THEN [state |-> state, err |-> "none"]
    ELSE LET name == Head(list)[1]
             value == Head(list)[2] IN
         IF name = ":status"
         THEN IF parse_u16(value) = None
              THEN [state |-> state, err |-> "ParseInt"]
              ELSE headers_loop(Tail(list),
                                [state EXCEPT !.status = parse_u16(value)])
         ELSE headers_loop(Tail(list),
                  [state EXCEPT !.headers = MapInsert(@, name, value)])

\* h3.recv_body: copies at most buf.len() of the readable bytes
recv_body(avail, buflen) == Min(Len(avail), buflen)

\* fuzz.rs:68: the request made for the candidate at index idx of the wordlist
request_for(idx) == with_path(base_req, words[idx])

\* the path of the request that was submitted on stream id
sent_path(id) == request_for(sub[id]).path

\* a frame on the wire, and the h3 event quiche makes of it
Frame(kind, id, payload) == [kind |-> kind, id |-> id, payload |-> payload]

\* a removal that leaves the entry in the table
remove_keeps(tbl, id) == tbl

\* client.rs:257: self.in_flight.remove(&id)
remove(tbl, id) == MapRemove(tbl, id)

\* an assignment of the slice in place of the append
extend_overwrites(body, slice) == slice

\* client.rs:252: state.body.extend_from_slice(&buf[..read])
extend_from_slice(body, slice) == body \o slice

\* what recv_body returns in place of a byte count when the engine fails the
\* read with an error that is not Done; it stands in the readable data at
\* the place where the read fails, and is no u8
RecvErr == 256

\* the bytes recv_body can hand out before it returns an Err
RECURSIVE readable(_)
readable(avail) ==
    IF avail = <<>> \/ Head(avail) = RecvErr THEN <<>>
    ELSE <<Head(avail)>> \o readable(Tail(avail))

\* client.rs:251-253: while let Ok(read) = recv_body(..) { extend_from_slice }
\* the loop ends at the first Err, be it Done or any other error
RECURSIVE body_loop(_, _)
body_loop(avail, body) ==
    IF readable(avail) = <<>> THEN body
    ELSE LET read == recv_body(readable(avail), MAX_DATAGRAM_SIZE) IN
         body_loop(SubSeq(avail, read + 1, Len(avail)),
                   extend_from_slice(body, SubSeq(avail, 1, read)))

\* an arm for the other events that takes them for the end of the stream
other_event_drops(st, id) == [st EXCEPT !.tbl = remove(@, id)]

\* client.rs:268: `_ => {}`, the arm of every event that is none of Headers,
\* Data, Finished
other_event(st, id) == st

\* client.rs:229-270: the loop over h3.poll, on the events `q` the engine
\* holds; st is the state the loop works on, with `completed`
RECURSIVE poll_loop(_, _)
poll_loop(q, st) ==
    IF q = <<>> THEN [st EXCEPT !.evq = q]
    ELSE LET ev == Head(q)
             id == ev.id
             at == [st EXCEPT !.evq = Tail(q)] IN
         CASE ev.kind = "Error" -> [at EXCEPT !.err = "Protocol"]
           [] ev.kind = "Headers" ->
                IF id \notin DOMAIN st.tbl THEN [at EXCEPT !.err = "Panic"]
                ELSE LET r == headers_loop(ev.payload, st.tbl[id]) IN
                     IF r.err # "none"
                     THEN [at EXCEPT !.tbl[id] = r.state, !.err = r.err]
                     ELSE poll_loop(Tail(q), [at EXCEPT !.tbl[id] = r.state])
           [] ev.kind = "Data" ->
                IF id \notin DOMAIN st.tbl THEN [at EXCEPT !.err = "Panic"]
                ELSE poll_loop(Tail(q),
                        [at EXCEPT !.tbl[id].body = body_loop(st.rx[id], @),
                                   !.rx[id] = <<>>,
                                   !.delivered[id] =
                                       IF readable(st.rx[id]) = <<>> THEN @
                                       ELSE Append(@, readable(st.rx[id]))])
           [] ev.kind = "Finished" ->
                IF id \notin DOMAIN st.tbl THEN [at EXCEPT !.err = "Panic"]
                ELSE LET state == st.tbl[id]
                         resp == Response(state.status, state.headers,
                                          state.body)
                         rm == [at EXCEPT !.tbl = remove(@, id),
                                          !.finished =
                                              MapInsert(@, id, state.status)]
                     IN
                     IF state.status = None
                     THEN [rm EXCEPT !.err = "MissingStatus"]
                     ELSE poll_loop(Tail(q),
                            [rm EXCEPT
                               !.completed = Append(@, resp),
                               !.cids = Append(@, id),
                               !.expected =
                                   IF matches(matcher, resp)
                                   THEN Append(@, Line(resp.status,
                                                       sent_path(id)))
                                   ELSE @])
           [] OTHER -> poll_loop(Tail(q), other_event(at, id))

\* Client::poll_responses: Ok(Vec::new()) while conn_h3 is None
poll_responses_call ==
    LET st == [tbl |-> in_flight, rx |-> rx, evq |-> evq,
               finished |-> finished,
               expected |-> expected, delivered |-> delivered,
               completed |-> <<>>, cids |-> <<>>, err |-> "none"] IN
    IF conn_h3 THEN poll_loop(evq, st) ELSE st

\* client.rs:154-163: conn.recv on every datagram the socket holds
RECURSIVE recv_loop(_, _)
recv_loop(frames, eng) ==
    IF frames = <<>> THEN eng
    ELSE LET f == Head(frames) IN
         CASE f.kind \in {"Data", "DataErr"} /\ f.id \in DOMAIN eng.rx ->
                recv_loop(Tail(frames),
                    [eng EXCEPT !.rx[f.id] = @ \o f.payload,
                                !.evq = Append(@, Frame("Data", f.id, <<>>))])
           [] OTHER ->
                recv_loop(Tail(frames), [eng EXCEPT !.evq = Append(@, f)])

\* -------------------------------------------------------------------- Init
\* The datagram level of the connection after Client::new: the handshake is
\* done (client.rs:77).  poll_io below takes a whole turn of the pump as one
\* step; its datagrams are followed step by step in PumpSpec.
PumpAtRest ==
    /\ established = TRUE
    /\ closed = FALSE
    /\ edge = {}
    /\ events = {}
    /\ sock = 0
    /\ outq = 0
    /\ log = <<>>

\* the lines of the wordlist file; from the third on they repeat "x"
FileLine(i) ==
    CASE i = 1 -> <<"admin">>
      [] i = 2 -> <<" ", "login", "\r">>
      [] OTHER -> <<"x", " ">>

Init ==
    /\ base_req = Request(<<"https">>, <<"host">>, <<"GET">>, <<"/", "api">>,
                          EmptyMap)
    /\ matcher = MatcherDefault
    /\ \E n \in 0..MaxWords : words = [i \in 1..n |-> trim(FileLine(i))]
    /\ pending = words
    /\ in_flight = EmptyMap
    /\ conn_h3 = FALSE
    /\ pc = "loop"
    /\ error = "none"
    /\ out = <<>>
    /\ progress = 0
    /\ peer_max \in 0..MaxBudget
    /\ opened = 0
    /\ evq = <<>>
    /\ rx = EmptyMap
    /\ srv = EmptyMap
    /\ sent = EmptyMap
    /\ completed = <<>>
    /\ cids = <<>>
    /\ result = "none"
    /\ sub = EmptyMap
    /\ finished = EmptyMap
    /\ expected = <<>>
    /\ delivered = EmptyMap
    /\ PumpAtRest

\* ------------------------------------------------------- Fuzzer::fuzz loop
\* fuzz.rs:57: while !pending.is_empty() || self.client.has_in_flight()
fuzz_while ==
    /\ pc = "loop"
    /\ pc' = IF pending # <<>> \/ has_in_flight THEN "poll_io" ELSE "done"
    /\ UNCHANGED <<cfg_vars, pump_vars, pending, client_vars, error, out, progress,
                   engine_vars, peer_vars, ret_vars, hist_vars>>

\* fuzz.rs:60: self.client.poll_responses()?
poll_responses ==
    /\ pc = "poll_responses"
    /\ \E r \in {poll_responses_call} :
        /\ in_flight' = r.tbl
        /\ rx' = r.rx
        /\ evq' = r.evq
        /\ finished' = r.finished
        /\ expected' = r.expected
        /\ delivered' = r.delivered
        /\ IF r.err # "none"
           THEN /\ pc' = "err"
                /\ error' = r.err
                /\ UNCHANGED ret_vars
           ELSE /\ pc' = "for_resp"
                /\ completed' = r.completed
                /\ cids' = r.cids
                /\ UNCHANGED error
    /\ UNCHANGED <<cfg_vars, pump_vars, pending, conn_h3, out, progress, peer_max,
                   opened, peer_vars, sub_vars>>

\* fuzz.rs:60-65: the `for resp` loop, to its end or to a failed write
for_resp_loop ==
    /\ pc = "for_resp"
    /\ \E broken \in BOOLEAN :
       \E f \in {for_resp(matcher, completed, out, progress, broken)} :
        /\ out' = f.out
        /\ progress' = f.progress
        /\ error' = f.err
        /\ pc' = IF f.err # "none" THEN "err" ELSE "submit"
    /\ completed' = <<>>
    /\ cids' = <<>>
    /\ UNCHANGED <<cfg_vars, pump_vars, pending, client_vars, engine_vars, peer_vars,
                   hist_vars>>

\* a variant of ensure_h3 that replaces the sub-connection it finds
ensure_h3_replaces(h3) == ~h3

\* Client::ensure_h3 returning Ok (client.rs:183-192): conn_h3 is Some
\* afterwards, the one it found or, if it found None, a new one
ensure_h3(h3) == IF h3 = FALSE THEN TRUE ELSE h3

\* an admission check that lets every request through
admits_always(left) == TRUE

\* an admission check that lets no request through
admits_never(left) == FALSE

\* client.rs:198: the admission check on the budget the peer leaves
admits(left) == left # 0

\* a pop_front that leaves the queue as it is
pop_front_keeps(q) == q

\* a removal at the back of the queue in place of the front
pop_back(q) == SubSeq(q, 1, Len(q) - 1)

\* fuzz.rs:72: pending.pop_front()
pop_front(q) == Tail(q)

\* fuzz.rs:67: `while let Some(word) = pending.front()` finds the queue empty
submit_end ==
    /\ pc = "submit"
    /\ pending = <<>>
    /\ pc' = "loop"
    /\ UNCHANGED <<cfg_vars, pump_vars, pending, client_vars, error, out, progress,
                   engine_vars, peer_vars, ret_vars, hist_vars>>

\* fuzz.rs:68-73 with Client::send_request: the engine accepts the request
\* and returns its next stream identifier or, against its contract, one that
\* is still tracked (client.rs:213-217)
send_request_Ok ==
    /\ pc = "submit"
    /\ pending # <<>>
    /\ admits(peer_streams_left_bidi)
    /\ \E stream_id \in {next_stream_id} \cup DOMAIN in_flight :
        /\ conn_h3' = ensure_h3(conn_h3)
        /\ opened' = opened + 1
        /\ srv' = MapInsert(srv, stream_id, "req")
        /\ sent' = MapInsert(sent, stream_id, 0)
        /\ rx' = MapInsert(rx, stream_id, <<>>)
        /\ delivered' = MapInsert(delivered, stream_id, <<>>)
        /\ in_flight' = MapInsert(in_flight, stream_id, InFlight)
        /\ IF stream_id \in DOMAIN in_flight
           THEN /\ result' = "Other"
                /\ pc' = "err"
                /\ error' = "Other"
                /\ UNCHANGED <<pending, sub>>
           ELSE /\ result' = "Ok"
                /\ pending' = pop_front(pending)
                /\ sub' = MapInsert(sub, stream_id,
                                    Len(words) - Len(pending) + 1)
                /\ pc' = "submit"
                /\ UNCHANGED error
    /\ UNCHANGED <<cfg_vars, pump_vars, out, progress, peer_max, evq, ret_vars,
                   finished, expected>>

\* a backpressure arm that retries at once, without leaving the submit loop
send_request_InFlightFull_retries ==
    /\ pc = "submit"
    /\ pending # <<>>
    /\ ~admits(peer_streams_left_bidi)
    /\ conn_h3' = ensure_h3(conn_h3)
    /\ result' = "InFlightFull"
    /\ pc' = "submit"
    /\ UNCHANGED <<cfg_vars, pump_vars, pending, in_flight, error, out, progress,
                   engine_vars, peer_vars, ret_vars, sub,
                   finished, expected, delivered>>

\* a backpressure arm that drops the candidate it could not submit
send_request_InFlightFull_drops ==
    /\ pc = "submit"
    /\ pending # <<>>
    /\ ~admits(peer_streams_left_bidi)
    /\ conn_h3' = ensure_h3(conn_h3)
    /\ result' = "InFlightFull"
    /\ pending' = pop_front(pending)
    /\ pc' = "loop"
    /\ UNCHANGED <<cfg_vars, pump_vars, in_flight, error, out, progress,
                   engine_vars, peer_vars, ret_vars, sub,
                   finished, expected, delivered>>

\* send_request returns InFlightFull (client.rs:198-200); fuzz.rs:75-77 breaks
send_request_InFlightFull ==
    /\ pc = "submit"
    /\ pending # <<>>
    /\ ~admits(peer_streams_left_bidi)
    /\ conn_h3' = ensure_h3(conn_h3)
    /\ result' = "InFlightFull"
    /\ pc' = "loop"
    /\ UNCHANGED <<cfg_vars, pump_vars, pending, in_flight, error, out, progress,
                   engine_vars, peer_vars, ret_vars, sub,
                   finished, expected, delivered>>

\* the engine reports StreamBlocked (client.rs:208); fuzz.rs:75-77 breaks
send_request_WouldBlock ==
    /\ pc = "submit"
    /\ pending # <<>>
    /\ admits(peer_streams_left_bidi)
    /\ conn_h3' = ensure_h3(conn_h3)
    /\ result' = "WouldBlock"
    /\ pc' = "loop"
    /\ UNCHANGED <<cfg_vars, pump_vars, pending, in_flight, error, out, progress,
                   engine_vars, peer_vars, ret_vars, sub,
                   finished, expected, delivered>>

\* send_request returns Other: ensure_h3 fails on first use (client.rs:195)
\* or the engine refuses the request (client.rs:210); fuzz.rs:79 returns
send_request_Other ==
    /\ pc = "submit"
    /\ pending # <<>>
    /\ \/ ~conn_h3 /\ conn_h3' = FALSE
       \/ admits(peer_streams_left_bidi) /\ conn_h3' = ensure_h3(conn_h3)
    /\ result' = "Other"
    /\ pc' = "err"
    /\ error' = "Other"
    /\ UNCHANGED <<cfg_vars, pump_vars, pending, in_flight, out, progress,
                   engine_vars, peer_vars, ret_vars, sub,
                   finished, expected, delivered>>

\* ------------------------------------------------------ the peer, the wire
StatusOf(digits) == <<":status", digits>>

\* the header lists the peer answers with
HeaderLists ==
    { << StatusOf(<<"2", "0", "0">>) >>,
      << <<"server", <<"a">>>>, StatusOf(<<"4", "0", "4">>),
         <<"server", <<"b">>>> >>,
      << <<"server", <<"a">>>> >>,
      << <<"server", <<"a">>>>, StatusOf(<<"O", "K">>) >> }

\* the body the peer sends on a stream: its k-th byte (from 0) is id + k as a
\* u8, so the bytes of two streams and of two positions differ
BodyByte(id, k) == (id + k) % 256

RECURSIVE SumOver(_, _)
SumOver(f, S) ==
    IF S = {} THEN 0
    ELSE LET x == CHOOSE y \in S : TRUE IN f[x] + SumOver(f, S \ {x})

\* Nothing that follows a frame the harvest is certain to fail on is ever
\* looked at.
Aborts(f) ==
    \/ f.kind = "Error"
    \/ f.kind = "Headers" /\ headers_loop(f.payload, InFlight).err # "none"

\* w = [net, srv, sent]: the frames the socket holds and the peer's state.
\* The peer answers a request with Headers, then Data frames, then Finished.
SrvHeaders(w) ==
    { [w EXCEPT !.net = Append(@, Frame("Headers", id, list)),
                !.srv[id] = "hdr"] :
        id \in {x \in DOMAIN w.srv : w.srv[x] = "req"}, list \in HeaderLists }

SrvData(w) ==
    IF SumOver(w.sent, DOMAIN w.sent) < MaxBody
    THEN { [w EXCEPT !.net = Append(@, Frame("Data", id,
                                            <<BodyByte(id, w.sent[id])>>)),
                     !.sent[id] = @ + 1] :
             id \in {x \in DOMAIN w.srv : w.srv[x] = "hdr"} }
    ELSE {}

SrvFinished(w) ==
    { [w EXCEPT !.net = Append(@, Frame("Finished", id, <<>>)),
                !.srv[id] = "fin"] :
        id \in {x \in DOMAIN w.srv : w.srv[x] = "hdr"} }

\* an event that is none of Headers, Data, Finished (Reset, GoAway,
\* PriorityUpdate) for a stream whose headers were sent: the first frame of
\* a batch
SrvOther(w) ==
    IF w.net = <<>>
    THEN { [w EXCEPT !.net = Append(@, Frame("Reset", id, <<>>))] :
             id \in {x \in DOMAIN w.srv : w.srv[x] = "hdr"} }
    ELSE {}

\* stream data the engine announces with a Data event and then fails to
\* read (recv_body returns an Err that is not Done); it is the only frame
\* of its batch
SrvDataErr(w) ==
    IF w.net = <<>>
    THEN { [w EXCEPT !.net = Append(@, Frame("DataErr", id, <<RecvErr>>))] :
             id \in {x \in DOMAIN w.srv : w.srv[x] = "hdr"} }
    ELSE {}

\* the batch ends with this frame
Last(f) == Aborts(f) \/ f.kind = "DataErr" \/ f.id \notin DOMAIN srv

\* against the contract, an event for a stream that was never submitted: the
\* only frame of its batch
SrvStray(w) ==
    IF conn_h3 /\ w.net = <<>>
    THEN { [w EXCEPT !.net = Append(@, f)] :
             f \in { Frame("Headers", next_stream_id,
                           << StatusOf(<<"2", "0", "0">>) >>),
                     Frame("Data", next_stream_id, <<>>),
                     Frame("Finished", next_stream_id, <<>>) } }
    ELSE {}

\* a frame h3.poll fails on
SrvMalformed(w) ==
    IF conn_h3 THEN { [w EXCEPT !.net = Append(@, Frame("Error", 0, <<>>))] }
    ELSE {}

\* what the socket can hold when poll_io reads it: at most k more frames
RECURSIVE Arrivals(_, _)
Arrivals(k, w) ==
    {w} \cup
    IF k = 0 \/ (w.net # <<>> /\ Last(w.net[Len(w.net)])) THEN {}
    ELSE UNION { Arrivals(k - 1, v) :
                   v \in SrvHeaders(w) \cup SrvData(w) \cup SrvFinished(w)
                         \cup SrvOther(w) \cup SrvDataErr(w)
                         \cup SrvStray(w) \cup SrvMalformed(w) }

\* MAX_STREAMS frames the socket can hold: the peer raises its limit, never
\* leaving more than MaxBudget.  The limit is read by send_request alone,
\* after the whole batch, so where in the batch they stand cannot be told.
Grants == 0..Min(MaxNet, MaxBudget - peer_streams_left_bidi)

\* Client::poll_io returning Ok: everything the socket holds goes to the
\* engine (client.rs:154-163)
poll_io ==
    /\ pc = "poll_io"
    /\ \E g \in Grants :
       \E w \in Arrivals(MaxNet - g, [net |-> <<>>, srv |-> srv, sent |-> sent]) :
        \E eng \in {recv_loop(w.net, [evq |-> evq, rx |-> rx])} :
        /\ evq' = eng.evq
        /\ rx' = eng.rx
        /\ peer_max' = peer_max + g
        /\ srv' = w.srv
        /\ sent' = w.sent
    /\ pc' = "poll_responses"
    /\ UNCHANGED <<cfg_vars, pump_vars, pending, client_vars, error, out, progress,
                   opened, ret_vars, hist_vars>>

\* Client::poll_io returning Err (client.rs:146,152,158,162,174,177)
poll_io_Err ==
    /\ pc = "poll_io"
    /\ pc' = "err"
    /\ error' = "Io"
    /\ UNCHANGED <<cfg_vars, pump_vars, pending, client_vars, out, progress,
                   engine_vars, peer_vars, ret_vars, hist_vars>>

Next ==
    \/ fuzz_while
    \/ poll_io
    \/ poll_io_Err
    \/ poll_responses
    \/ for_resp_loop
    \/ submit_end
    \/ send_request_Ok
    \/ send_request_InFlightFull
    \/ send_request_WouldBlock
    \/ send_request_Other

Spec == Init /\ [][Next]_vars

\* --------------------------------- the pump, datagram by datagram (PumpSpec)
\* what the pump leaves alone: everything above the datagram level
fuzz_vars == <<cfg_vars, pending, client_vars, out, progress, engine_vars,
               peer_vars, ret_vars, hist_vars>>

\* an events test that is always true
is_empty_always(ev) == TRUE

\* mio::Events::is_empty (client.rs:133, 166)
is_empty(ev) == ev = {}

\* how often the call c was made in the current turn
Count(c) == Cardinality({i \in DOMAIN log : log[i] = c})

\* the engine may have one more datagram to send after it was given input
wants_more(n) == {n, Min(n + 1, MaxNet)}

\* Client::new up to the call of perform_handshake (client.rs:19-77): the
\* socket is registered, so it is reported writable once; the engine has
\* its first flight to send
PumpInit ==
    /\ base_req = Request(<<"https">>, <<"host">>, <<"GET">>, <<"/", "api">>,
                          EmptyMap)
    /\ matcher = MatcherDefault
    /\ words = <<>>
    /\ pending = <<>>
    /\ in_flight = EmptyMap
    /\ conn_h3 = FALSE
    /\ pc = "hs_while"
    /\ error = "none"
    /\ out = <<>>
    /\ progress = 0
    /\ peer_max = 0
    /\ opened = 0
    /\ evq = <<>>
    /\ rx = EmptyMap
    /\ srv = EmptyMap
    /\ sent = EmptyMap
    /\ completed = <<>>
    /\ cids = <<>>
    /\ result = "none"
    /\ sub = EmptyMap
    /\ finished = EmptyMap
    /\ expected = <<>>
    /\ delivered = EmptyMap
    /\ established = FALSE
    /\ closed = FALSE
    /\ edge = {"writable"}
    /\ events = {}
    /\ sock = 0
    /\ outq = 1
    /\ log = <<>>

\* the peer's datagrams reach the socket at any time; the poller, with which
\* the socket is registered for READABLE | WRITABLE (client.rs:27-33), notes
\* the edge and reports it at the next poll, whether or not the datagram is
\* still in the socket then.  At most MaxNet datagrams are received in one
\* turn.
datagram_arrives ==
    /\ pc \notin {"err", "hs_ok", "io_done"}
    /\ sock + Count("recv") < MaxNet
    /\ sock' = sock + 1
    /\ edge' = edge \cup {"readable"}
    /\ UNCHANGED <<fuzz_vars, pc, error, established, closed, events, outq, log>>

\* client.rs:106: while !conn.is_established(); client.rs:142: Ok(())
perform_handshake_while ==
    /\ pc = "hs_while"
    /\ IF established
       THEN pc' = "hs_ok" /\ UNCHANGED log
       ELSE pc' = "hs_send" /\ log' = <<>>
    /\ UNCHANGED <<fuzz_vars, error, established, closed, edge, events, sock,
                   outq>>

\* client.rs:107-117: conn.send and socket.send_to until Done or WouldBlock
perform_handshake_send ==
    /\ pc = "hs_send"
    /\ \/ /\ outq > 0 /\ ~closed
          /\ outq' = outq - 1
          /\ log' = Append(log, "send")
          /\ pc' \in {"hs_send", "hs_wait"}
       \/ /\ outq = 0 \/ closed
          /\ pc' = "hs_wait"
          /\ UNCHANGED <<outq, log>>
    /\ UNCHANGED <<fuzz_vars, error, established, closed, edge, events, sock>>

\* client.rs:119: poll.poll(events, conn.timeout()) returns what is ready,
\* at the latest when the engine's timeout has passed
perform_handshake_wait ==
    /\ pc = "hs_wait"
    /\ events' = edge
    /\ edge' = {}
    /\ log' = Append(log, "poll_timeout")
    /\ pc' = "hs_recv"
    /\ UNCHANGED <<fuzz_vars, error, established, closed, sock, outq>>

\* client.rs:121-131: socket.recv_from and conn.recv until WouldBlock
perform_handshake_recv ==
    /\ pc = "hs_recv"
    /\ \/ /\ sock > 0 /\ ~closed
          /\ sock' = sock - 1
          /\ log' = Append(log, "recv")
          /\ established' \in {established, TRUE}
          /\ outq' \in wants_more(outq)
          /\ pc' = "hs_recv"
       \/ /\ sock = 0
          /\ pc' = "hs_on_timeout"
          /\ UNCHANGED <<sock, log, established, outq>>
    /\ UNCHANGED <<fuzz_vars, error, closed, edge, events>>

\* client.rs:133-135: if events.is_empty() { conn.on_timeout() }; a timeout
\* can close the connection or make the engine send again
perform_handshake_on_timeout ==
    /\ pc = "hs_on_timeout"
    /\ IF is_empty(events)
       THEN /\ log' = Append(log, "on_timeout")
            /\ closed' \in {closed, TRUE}
            /\ outq' \in wants_more(outq)
       ELSE UNCHANGED <<log, closed, outq>>
    /\ pc' = "hs_is_closed"
    /\ UNCHANGED <<fuzz_vars, error, established, edge, events, sock>>

\* client.rs:137-139: if conn.is_closed() { return Err("handshake failed") }
perform_handshake_is_closed ==
    /\ pc = "hs_is_closed"
    /\ IF closed
       THEN pc' = "err" /\ error' = "HandshakeFailed"
       ELSE pc' = "hs_while" /\ UNCHANGED error
    /\ UNCHANGED <<fuzz_vars, pump_vars>>

\* Client::new returns (client.rs:86-94) and Fuzzer::fuzz calls poll_io
\* (fuzz.rs:58), turn after turn
poll_io_call ==
    /\ pc \in {"hs_ok", "io_done"}
    /\ pc' = "io_poll"
    /\ log' = <<>>
    /\ UNCHANGED <<fuzz_vars, error, established, closed, edge, events, sock,
                   outq>>

\* client.rs:151-152: poll.poll(events, Some(0 ms))
poll_io_poll ==
    /\ pc = "io_poll"
    /\ events' = edge
    /\ edge' = {}
    /\ log' = Append(log, "poll_zero")
    /\ pc' = "io_recv"
    /\ UNCHANGED <<fuzz_vars, error, established, closed, sock, outq>>

\* client.rs:154-163: socket.recv_from and conn.recv until WouldBlock
poll_io_recv ==
    /\ pc = "io_recv"
    /\ \/ /\ sock > 0 /\ ~closed
          /\ sock' = sock - 1
          /\ log' = Append(log, "recv")
          /\ outq' \in wants_more(outq)
          /\ pc' = "io_recv"
       \/ /\ sock = 0
          /\ pc' = "io_on_timeout"
          /\ UNCHANGED <<sock, log, outq>>
    /\ UNCHANGED <<fuzz_vars, error, established, closed, edge, events>>

\* client.rs:165-167: if self.events.is_empty() { on_timeout() }
poll_io_on_timeout ==
    /\ pc = "io_on_timeout"
    /\ IF is_empty(events)
       THEN /\ log' = Append(log, "on_timeout")
            /\ closed' \in {closed, TRUE}
            /\ outq' \in wants_more(outq)
       ELSE UNCHANGED <<log, closed, outq>>
    /\ pc' = "io_send"
    /\ UNCHANGED <<fuzz_vars, error, established, edge, events, sock>>

\* client.rs:169-179: conn.send and socket.send_to until Done or WouldBlock
poll_io_send ==
    /\ pc = "io_send"
    /\ \/ /\ outq > 0 /\ ~closed
          /\ outq' = outq - 1
          /\ log' = Append(log, "send")
          /\ pc' \in {"io_send", "io_done"}
       \/ /\ outq = 0 \/ closed
          /\ pc' = "io_done"
          /\ UNCHANGED <<outq, log>>
    /\ UNCHANGED <<fuzz_vars, error, established, closed, edge, events, sock>>

\* an error of the poller, the socket or the engine, returned with `?` or
\* `return Err` (client.rs:112, 115, 119, 124, 126, 129, 146, 152, 158, 162, 174, 177)
pump_Err ==
    /\ pc \in {"hs_send", "hs_wait", "hs_recv", "io_poll", "io_recv", "io_send"}
    /\ pc' = "err"
    /\ error' = "Io"
    /\ UNCHANGED <<fuzz_vars, pump_vars>>

PumpNext ==
    \/ datagram_arrives
    \/ perform_handshake_while
    \/ perform_handshake_send
    \/ perform_handshake_wait
    \/ perform_handshake_recv
    \/ perform_handshake_on_timeout
    \/ perform_handshake_is_closed
    \/ poll_io_call
    \/ poll_io_poll
    \/ poll_io_recv
    \/ poll_io_on_timeout
    \/ poll_io_send
    \/ pump_Err

PumpSpec == PumpInit /\ [][PumpNext]_vars

\* ------------------------------------------------ Matcher::matches alone
\* the matcher configurations: the default, a size range, no code at all,
\* one code with the empty body only, a size range that holds nothing
Matchers ==
    { MatcherDefault,
      with_size(MatcherDefault, <<1, MaxBody>>),
      with_codes(MatcherDefault, <<>>),
      with_size(with_codes(MatcherDefault, << <<404, 404>> >>), <<0, 0>>),
      with_size(MatcherDefault, <<MaxBody, 1>>) }

\* statuses at, next to and away from the ends of the default ranges
Statuses ==
    {199, 200, 299, 300, 301, 302, 303, 307, 308, 401, 403, 404, 405, 500, 501}

\* the body of n bytes the peer sends on stream id
BodyOf(id, n) == [k \in 1..n |-> BodyByte(id, k - 1)]

\* fuzz.rs:60: poll_responses has just returned one Response, the answer to
\* the only candidate, with any status, any header and a body of any length
MatchInit ==
    /\ base_req = Request(<<"https">>, <<"host">>, <<"GET">>, <<"/", "api">>,
                          EmptyMap)
    /\ matcher \in Matchers
    /\ words = <<trim(FileLine(1))>>
    /\ pending = <<>>
    /\ in_flight = EmptyMap
    /\ conn_h3 = TRUE
    /\ pc = "for_resp"
    /\ error = "none"
    /\ out = <<>>
    /\ progress = 0
    /\ peer_max = 1
    /\ opened = 1
    /\ evq = <<>>
    /\ result = "Ok"
    /\ \E id \in {0}, status \in Statuses, n \in 0..MaxBody :
       \E hs \in {EmptyMap, MapInsert(EmptyMap, "server", <<"a">>)} :
       \E resp \in {Response(status, hs, BodyOf(id, n))} :
        /\ completed = <<resp>>
        /\ cids = <<id>>
        /\ sub = MapInsert(EmptyMap, id, 1)
        /\ rx = MapInsert(EmptyMap, id, <<>>)
        /\ srv = MapInsert(EmptyMap, id, "fin")
        /\ sent = MapInsert(EmptyMap, id, n)
        /\ finished = MapInsert(EmptyMap, id, status)
        /\ delivered = MapInsert(EmptyMap, id,
                                 IF n = 0 THEN <<>> ELSE <<BodyOf(id, n)>>)
        /\ expected = IF matches(matcher, resp)
                      THEN <<Line(status, sent_path(id))>> ELSE <<>>
    /\ PumpAtRest

MatchNext == for_resp_loop

MatchSpec == MatchInit /\ [][MatchNext]_vars

\* the identifiers of the streams a run can open
StreamIds == {4 * k : k \in 0..(MaxWords - 1)}

\* The control loop is sequential code that keeps running (WF on Next).  The
\* engine is fair: a request that is retried for ever is accepted at some
\* time, the peer raises its stream limit at some time when it is asked for
\* ever, and the peer goes on with the answer of every stream it accepted.
FairSpec ==
    /\ Spec
    /\ WF_vars(Next)
    /\ SF_vars(send_request_Ok)
    /\ SF_vars(poll_io /\ peer_max' > peer_max)
    /\ \A id \in StreamIds :
          SF_vars(id \in DOMAIN srv /\ poll_io /\ srv'[id] # srv[id])

\* ------------------------------------------------------------------ claims
\* the number of successful submissions of the candidate at index i
okc(i) == Cardinality({id \in DOMAIN sub : sub[id] = i})

\* the number of candidates that have left the queue
gone == Len(words) - Len(pending)

\* the concatenation of the slices recv_body handed out
RECURSIVE Flatten(_)
Flatten(chunks) ==
    IF chunks = <<>> THEN <<>> ELSE Head(chunks) \o Flatten(Tail(chunks))

\* C1 (as worded): at every successful submission, the number of entries the
\* in-flight table holds after it is at most the peer_streams_left_bidi that
\* this send_request observed.
C1_AdmissionBound_Observed ==
    [][(pc = "submit" /\ result' = "Ok" /\ opened' # opened)
         => Cardinality(DOMAIN in_flight') <= peer_streams_left_bidi]_vars

\* C1 (amended): the in-flight table never holds more entries than streams
\* were opened, and the streams opened never exceed the cumulative limit the
\* peer has advertised: every entry was added by a send_request that observed
\* a budget of at least one.
C1_AdmissionBound ==
    /\ Cardinality(DOMAIN in_flight) <= opened
    /\ opened <= peer_max
    /\ peer_streams_left_bidi >= 0

\* C1 witness: the last submission observed a budget of one (now used up)
\* and left two entries in the table.
C1_Witness ==
    /\ result = "Ok"
    /\ peer_streams_left_bidi = 0
    /\ Cardinality(DOMAIN in_flight) = 2

\* C2: send_request returns Ok at most once for every candidate, a candidate
\* has left the queue iff send_request returned Ok for it, the queue is what
\* remains of the wordlist in its order, fuzz returns Ok only when every
\* candidate was submitted exactly once, and any other end is a fatal error.
C2_AtMostOnce ==
    /\ \A i \in 1..Len(words) : okc(i) <= 1
    /\ \A i \in 1..Len(words) : (i <= gone) <=> (okc(i) = 1)
    /\ pending = SubSeq(words, gone + 1, Len(words))
    /\ pc = "done" => \A i \in 1..Len(words) : okc(i) = 1
    /\ pc = "err" <=> error # "none"

\* C2 witness: fuzz returned Ok on a wordlist of two candidates, each sent
\* on a stream of its own.
C2_Witness ==
    /\ pc = "done"
    /\ Len(words) = 2
    /\ \A i \in 1..Len(words) : okc(i) = 1

\* C3: a stream identifier is a key of in_flight iff send_request returned Ok
\* with it and poll_responses has processed no Finished event for it.
C3_Bijection ==
    \A id \in StreamIds :
        id \in DOMAIN in_flight <=> (id \in DOMAIN sub /\ id \notin DOMAIN finished)

\* C3 witness: one stream was submitted and finished while another is still
\* tracked.
C3_Witness ==
    \E a \in DOMAIN sub, b \in DOMAIN sub :
        /\ a \in DOMAIN finished /\ a \notin DOMAIN in_flight
        /\ b \notin DOMAIN finished /\ b \in DOMAIN in_flight

\* the positions of `completed` that hold the Response made for stream id
emitted(id) == {i \in DOMAIN cids : cids[i] = id}

\* C4: whenever poll_responses processes a Finished event for a tracked
\* stream, the stream leaves the in-flight table and either exactly one
\* Response for it, with the status and the body accumulated for it, is in
\* what the call returns, or no status was recorded for it and the call
\* fails with the missing-status error.
C4_CompletionDrains ==
    [][\A id \in DOMAIN finished' \ DOMAIN finished :
         /\ id \in DOMAIN in_flight
         /\ id \notin DOMAIN in_flight'
         /\ IF finished'[id] = None
            THEN pc' = "err" /\ error' = "MissingStatus"
            ELSE /\ Cardinality(emitted(id)') = 1
                 /\ \A i \in emitted(id)' :
                      /\ completed'[i].status = finished'[id]
                      /\ completed'[i].body = Flatten(delivered'[id])]_vars

\* C5: with a finite wordlist, an engine that accepts a retried request at
\* some time, a peer that raises its stream limit at some time and goes on
\* with every answer, Fuzzer::fuzz returns.
C5_Termination == <>(pc \in {"done", "err"})

\* C5 witness: fuzz returned Ok after both candidates of a wordlist of two
\* were answered.
C5_Witness ==
    /\ pc = "done"
    /\ progress = 2
    /\ DOMAIN finished = {0, 4}

\* C6: fuzz has returned Ok only with the queue and the table both empty, and
\* a step reaches the normal exit exactly when it is the loop test taken
\* with the queue and the table both empty.
C6_ExactExit ==
    /\ [](pc = "done" => (pending = <<>> /\ DOMAIN in_flight = {}))
    /\ [][(pc' = "done")
            <=> (pc = "loop" /\ pending = <<>> /\ DOMAIN in_flight = {})]_vars

\* C6 witness: the loop has exited normally after requests were tracked and
\* finished.
C6_Witness ==
    /\ pc = "done"
    /\ DOMAIN finished # {}
    /\ pending = <<>>
    /\ DOMAIN in_flight = {}

\* a send_request call left the streams, the table and the queue as they were
Untouched ==
    /\ opened' = opened
    /\ in_flight' = in_flight
    /\ pending' = pending

\* C7 (as worded): every send_request made while the peer leaves a budget of
\* 0 returns InFlightFull and opens no stream, changes neither the table nor
\* the queue; and so does every send_request that returns WouldBlock.
C7_Backpressure_Always ==
    /\ [][(pc = "submit" /\ pending # <<>> /\ peer_streams_left_bidi = 0)
            => (result' = "InFlightFull" /\ Untouched)]_vars
    /\ [][(pc = "submit" /\ result' = "WouldBlock") => Untouched]_vars

\* C7 (amended): a send_request made while the peer leaves a budget of 0 opens
\* no stream and changes neither the table nor the queue; it returns
\* InFlightFull, unless it is the call that has to create the HTTP/3
\* connection and ensure_h3 fails, which is the fatal Other.  A send_request
\* that returns WouldBlock changes none of them either.  After InFlightFull
\* and WouldBlock the loop goes on.
C7_Backpressure ==
    /\ [][(pc = "submit" /\ pending # <<>> /\ peer_streams_left_bidi = 0)
            => /\ Untouched
               /\ \/ result' = "InFlightFull" /\ pc' = "loop"
                  \/ result' = "Other" /\ ~conn_h3 /\ pc' = "err"]_vars
    /\ [][(pc = "submit" /\ result' = "WouldBlock")
            => (Untouched /\ pc' = "loop")]_vars

\* C7 witness: send_request has just returned InFlightFull with a candidate
\* waiting and a request in flight.
C7_Witness ==
    /\ result = "InFlightFull"
    /\ pc = "loop"
    /\ peer_streams_left_bidi = 0
    /\ pending # <<>>
    /\ DOMAIN in_flight # {}

\* C8: outside the `for resp` loop, the lines written are exactly the lines
\* "[<status>] <path>" owed for the finished responses the matcher accepts,
\* <path> the path of the request submitted on the stream, in the order the
\* Finished events were processed.
C8_MatchOutput ==
    (pc # "for_resp" /\ error # "Io") => out = expected

\* C9: outside the `for resp` loop, the progress counter equals the number of
\* Finished events processed for a stream that had a status, and it equals
\* the number of candidates when fuzz returns Ok.
C9_Progress ==
    /\ (pc # "for_resp" /\ error # "Io")
          => progress = Cardinality({id \in DOMAIN finished :
                                        finished[id] # None})
    /\ pc = "done" => progress = Len(words)

\* C10: the body accumulated for a tracked stream, and the body of every
\* Response poll_responses returns, is the concatenation in order of the
\* slices recv_body handed out for that stream, which are the bytes the peer
\* sent on that stream and on no other.
C10_BodyAssembly ==
    /\ \A id \in DOMAIN in_flight :
          in_flight[id].body = Flatten(delivered[id])
    /\ \A i \in DOMAIN completed :
          /\ completed[i].body = Flatten(delivered[cids[i]])
          /\ \A k \in DOMAIN completed[i].body :
                completed[i].body[k] = BodyByte(cids[i], k - 1)

\* C10 witness: poll_responses returns a Response whose body was read in two
\* ticks, while another stream of the run had events of its own.
C10_Witness ==
    /\ pc = "for_resp"
    /\ \E i \in DOMAIN completed :
          /\ Len(delivered[cids[i]]) >= 2
          /\ Len(completed[i].body) >= 2
          /\ \E other \in DOMAIN sub \ {cids[i]} : srv[other] # "req"

\* the predicate the matcher is to compute, from the status and the body
\* length alone
Accepts(m, status, len) ==
    /\ \E i \in DOMAIN m.codes : m.codes[i][1] <= status /\ status <= m.codes[i][2]
    /\ m.size = <<>> \/ (m.size[1] <= len /\ len <= m.size[2])

\* C11: Matcher::matches is true iff the status lies in a configured
\* inclusive range and no size range is configured or the body length lies
\* in it; the `for resp` loop prints a line (or fails writing it) for exactly
\* those responses; by default 200 is accepted and 404 is not.
C11_MatcherPredicate ==
    /\ \A i \in DOMAIN completed :
          matches(matcher, completed[i])
             <=> Accepts(matcher, completed[i].status, Len(completed[i].body))
    /\ pc # "for_resp" =>
          \A id \in DOMAIN finished :
              (out # <<>> \/ error = "Io")
                 <=> Accepts(matcher, finished[id], sent[id])
    /\ matches(MatcherDefault, Response(200, EmptyMap, <<>>))
    /\ ~matches(MatcherDefault, Response(404, EmptyMap, <<>>))

\* C11 witness: a response at the upper end of a status range, with a body
\* at the upper end of the configured size range, was printed.
C11_Witness ==
    /\ pc = "submit"
    /\ out # <<>>
    /\ matcher.size = <<1, MaxBody>>
    /\ \E id \in DOMAIN finished : finished[id] = 299 /\ sent[id] = MaxBody

\* C12: a send_request that returns InFlightFull or WouldBlock ends the
\* submit loop without an error and without touching the queue; from there
\* the run passes the loop test, poll_io, poll_responses and the `for resp`
\* loop, in this order, before it is at a send_request again, and no step on
\* the way calls send_request or changes the queue, so the retry is for the
\* candidate that was refused.
C12_NoBusyLoop ==
    [][/\ (pc = "submit" /\ pending # <<>>
              /\ result' \in {"InFlightFull", "WouldBlock"})
          => (pc' = "loop" /\ error' = "none" /\ pending' = pending)
       /\ (pc = "loop" /\ pending # <<>>) => pc' = "poll_io"
       /\ pc = "poll_io" => pc' \in {"poll_responses", "err"}
       /\ pc = "poll_responses" => pc' \in {"for_resp", "err"}
       /\ pc = "for_resp" => pc' \in {"submit", "err"}
       /\ pc # "submit"
          => (pending' = pending /\ result' = result /\ opened' = opened)]_vars

\* C12 witness: the run is back at send_request after a refusal, the refused
\* candidate still in front, and the peer has granted a stream meanwhile.
C12_Witness ==
    /\ pc = "submit"
    /\ result \in {"InFlightFull", "WouldBlock"}
    /\ pending # <<>>
    /\ peer_streams_left_bidi > 0
    /\ DOMAIN in_flight # {}

\* the number of Finished events processed for a stream that had a status
completions == Cardinality({id \in DOMAIN finished : finished[id] # None})

\* C13: when fuzz has ended with a fatal error (other than an I/O error,
\* which a failed write of a result line is), every response whose Finished
\* event was processed with a status has been counted in the progress
\* counter and, if the matcher accepts it, printed.
C13_NoPartialResultsDiscarded ==
    (pc = "err" /\ error # "Io")
        => (progress = completions /\ Len(out) = Len(expected))

\* the engine has an error in store for this harvest: h3.poll will return
\* one, or recv_body will while the body of a stream is read
engine_error_due ==
    \E i \in DOMAIN evq :
        \/ evq[i].kind = "Error"
        \/ /\ evq[i].kind = "Data"
           /\ evq[i].id \in DOMAIN rx
           /\ \E k \in DOMAIN rx[evq[i].id] : rx[evq[i].id][k] = RecvErr

\* C14: a poll_responses call in which the engine returns an error other than
\* Done, from poll or from recv_body, ends with an error that ends the run.
C14_ProtocolErrorsFatal ==
    [][(pc = "poll_responses" /\ conn_h3 /\ engine_error_due)
          => (pc' = "err" /\ error' # "none")]_vars

\* the next event of the harvest is for a stream the table does not hold
unknown_stream_event ==
    /\ pc = "poll_responses" /\ conn_h3 /\ evq # <<>>
    /\ Head(evq).kind \in {"Headers", "Data", "Finished"}
    /\ Head(evq).id \notin DOMAIN in_flight

\* the engine accepts the request and send_request fails all the same: the
\* identifier it returned is already tracked
duplicate_stream_id ==
    /\ pc = "submit" /\ opened' = opened + 1 /\ result' = "Other"

\* C15: an event for a stream that is not tracked, and a send_request for
\* which the engine returns a tracked identifier, end the run, leave the
\* in-flight table as it was, and nothing is done after the run has ended.
C15_ContractViolationsAbort ==
    /\ [][(unknown_stream_event \/ duplicate_stream_id)
             => (pc' = "err" /\ in_flight' = in_flight)]_vars
    /\ [][pc # "err"]_vars

\* the path the template's base path gives with the word spliced in
Splice(base, word) ==
    IF base # <<>> /\ base[Len(base)] = "/" THEN base \o word
    ELSE base \o <<"/">> \o word

\* C19: the request submitted on every stream equals the template in
\* scheme, authority, method and headers, its path is the template's base
\* path with the candidate spliced in, and the template is what it was at
\* the start.
C19_RequestDerivation ==
    /\ base_req = Request(<<"https">>, <<"host">>, <<"GET">>, <<"/", "api">>,
                          EmptyMap)
    /\ \A id \in DOMAIN sub :
          LET req == request_for(sub[id]) IN
          /\ req.scheme = base_req.scheme
          /\ req.host = base_req.host
          /\ req.method = base_req.method
          /\ req.headers = base_req.headers
          /\ req.path = Splice(base_req.path, words[sub[id]])

\* the events of kind Headers, Data, Finished, and the errors of h3.poll
handled(ev) == ev.kind \in {"Headers", "Data", "Finished", "Error"}

\* poll_responses on the events q in place of those the engine holds
harvest(q) ==
    poll_loop(q, [tbl |-> in_flight, rx |-> rx, evq |-> q,
                  finished |-> finished,
                  expected |-> expected, delivered |-> delivered,
                  completed |-> <<>>, cids |-> <<>>, err |-> "none"])

\* C20: a harvest does to the in-flight table, to the state accumulated for
\* every stream, to the list of completed responses and to its outcome what
\* it does without the events that are none of Headers, Data, Finished; a
\* tracked stream with such an event and no Finished stays tracked, so
\* has_in_flight stays true.
C20_OtherEventsNoOps ==
    (/\ pc = "poll_responses" /\ conn_h3
     /\ \E i \in DOMAIN evq : ~handled(evq[i])) =>
        \A with \in {harvest(evq)} :
        \A without \in {harvest(SelectSeq(evq, handled))} :
        /\ with.tbl = without.tbl
        /\ with.completed = without.completed
        /\ with.err = without.err
        /\ \A i \in DOMAIN evq :
              (/\ ~handled(evq[i])
               /\ evq[i].id \in DOMAIN in_flight
               /\ \A j \in DOMAIN evq :
                     ~(evq[j].kind = "Finished" /\ evq[j].id = evq[i].id))
              => /\ evq[i].id \in DOMAIN with.tbl
                 /\ DOMAIN with.tbl # {}

\* C20 witness: the harvest is about to process a Reset for a tracked stream
\* that has a status, followed by another event.
C20_Witness ==
    /\ pc = "poll_responses" /\ conn_h3
    /\ Len(evq) >= 2
    /\ ~handled(evq[1])
    /\ evq[1].id \in DOMAIN in_flight
    /\ in_flight[evq[1].id].status # None

\* the place of a call in a turn of perform_handshake
hs_phase(c) ==
    CASE c = "send" -> 1
      [] c = "poll_timeout" -> 2
      [] c = "recv" -> 3
      [] c = "on_timeout" -> 4
      [] OTHER -> 0

\* C17: perform_handshake returns Ok only with the engine established; when
\* the engine reports closed at the test that ends a turn, its next step
\* returns the handshake-failed error, which it returns in no other case; the calls of a turn are, in this order, the sends,
\* one wait of the poller with the engine's timeout, the receives, and
\* on_timeout, which is called only if, and at the end of a turn exactly if,
\* the wait reported no readiness event.
C17_Handshake ==
    /\ [](pc = "hs_ok" => established)
    /\ [](pc \in {"hs_send", "hs_wait", "hs_recv", "hs_on_timeout",
                  "hs_is_closed"}
            => /\ \A i \in DOMAIN log : hs_phase(log[i]) \in 1..4
               /\ \A i \in DOMAIN log : \A j \in DOMAIN log :
                     i < j => hs_phase(log[i]) <= hs_phase(log[j])
               /\ Count("poll_timeout") <= 1
               /\ Count("on_timeout") <= 1
               /\ Count("on_timeout") = 1 => events = {}
               /\ pc \in {"hs_recv", "hs_on_timeout", "hs_is_closed"}
                     => Count("poll_timeout") = 1
               /\ pc = "hs_is_closed"
                     => (Count("on_timeout") = 1 <=> events = {}))
    /\ [][(pc = "hs_is_closed" /\ closed /\ pc' # pc)
             => (pc' = "err" /\ error' = "HandshakeFailed")]_vars
    /\ [][(pc' = "err" /\ error' = "HandshakeFailed")
             => (pc = "hs_is_closed" /\ closed)]_vars
    /\ [][pc' = "hs_ok" => (pc = "hs_while" /\ established)]_vars

\* C17 witness: perform_handshake returned Ok after a turn that sent, waited
\* and received, with a readiness event, so without on_timeout.
C17_Witness ==
    /\ pc = "hs_ok"
    /\ established
    /\ Count("send") >= 1
    /\ Count("poll_timeout") = 1
    /\ Count("recv") >= 1
    /\ Count("on_timeout") = 0

\* the place of a call in a turn of poll_io
io_phase(c) ==
    CASE c = "poll_zero" -> 1
      [] c = "recv" -> 2
      [] c = "on_timeout" -> 3
      [] c = "send" -> 4
      [] OTHER -> 0

\* C18: when poll_io returns, its calls were, in this order, one readiness
\* test that does not wait, the receives, on_timeout, and the sends;
\* on_timeout was called iff no datagram was received in the turn; the
\* in-flight table and the pending queue are as they were.
C18_PumpTurn ==
    pc = "io_done" =>
        /\ \A i \in DOMAIN log : io_phase(log[i]) \in 1..4
        /\ \A i \in DOMAIN log : \A j \in DOMAIN log :
              i < j => io_phase(log[i]) <= io_phase(log[j])
        /\ Count("poll_zero") = 1
        /\ Count("on_timeout") <= 1
        /\ Count("on_timeout") = 1 <=> Count("recv") = 0
        /\ in_flight = EmptyMap
        /\ pending = words

\* C16: conn_h3 is None after Client::new and until send_request was called;
\* it changes only from None to Some, in a step of send_request that is the
\* first call of it, and only with the transport established; while it is
\* None, poll_responses returns an empty list and changes nothing of the
\* client, the engine, the queue or the output.
C16_LazySingleH3 ==
    /\ [](result = "none" => ~conn_h3)
    /\ [](conn_h3 => established)
    /\ [][conn_h3' # conn_h3
            => (~conn_h3 /\ conn_h3' /\ pc = "submit" /\ pending # <<>>
                /\ result = "none" /\ result' # "none" /\ established)]_vars
    /\ [][(pc = "poll_responses" /\ ~conn_h3)
            => (pc' = "for_resp" /\ completed' = <<>> /\ cids' = <<>>
                /\ UNCHANGED <<cfg_vars, pump_vars, pending, client_vars,
                               error, out, progress, engine_vars, peer_vars,
                               sub_vars, hist_vars>>)]_vars

\* C16 witness: conn_h3 exists, poll_responses was called before it did and
\* send_request was called again after it was created.
C16_Witness ==
    /\ conn_h3
    /\ opened = 2
    /\ pc = "poll_responses"

\* C21: every successful submission is of the candidate in front of the
\* queue, which is the first candidate of the wordlist not yet submitted:
\* all candidates before it have been submitted successfully once and none
\* from it on has; a refusal submits nothing; so the streams, which the
\* engine numbers in the order of submission, carry the candidates in the
\* order of the wordlist, whatever happened between two submissions.
C21_FifoSubmission ==
    /\ [](\A a \in DOMAIN sub : \A b \in DOMAIN sub :
             a < b <=> sub[a] < sub[b])
    /\ [](\A id \in DOMAIN sub : \A i \in 1..sub[id] : okc(i) = 1)
    /\ [][\A id \in DOMAIN sub' \ DOMAIN sub :
             /\ pc = "submit" /\ result' = "Ok"
             /\ pending # <<>>
             /\ Head(pending) = words[sub'[id]]
             /\ \A i \in 1..Len(words) :
                   /\ i < sub'[id] => okc(i) = 1
                   /\ i >= sub'[id] => okc(i) = 0]_vars
    /\ [][/\ \A id \in DOMAIN sub :
                id \in DOMAIN sub' /\ sub'[id] = sub[id]
          /\ Cardinality(DOMAIN sub' \ DOMAIN sub) <= 1
          /\ (pc = "submit" /\ result' # "Ok") => sub' = sub]_vars

\* C21 witness: the second candidate has just been accepted, on the second
\* stream, in a later turn of the loop than the first: the first stream has
\* finished meanwhile, so the submit loop was left with the second candidate
\* still queued, which only a refusal does.
C21_Witness ==
    /\ pc = "submit"
    /\ result = "Ok"
    /\ Len(words) = 2
    /\ pending = <<>>
    /\ DOMAIN sub = {0, 4}
    /\ sub[0] = 1 /\ sub[4] = 2
    /\ 0 \in DOMAIN finished

====
